---- MODULE Spec2Model ----
(***************************************************************************)
(* A model of the graph engine of gtfs-graph: depth-first and breadth-     *)
(* first traversal, Dijkstra, page rank and the merge of transfer nodes    *)
(* (src/public/rank/app.js, lines 281-650).                                *)
(*                                                                         *)
(* JavaScript arrays are modelled as sequences; the element a[i] of the    *)
(* source is the element a[i+1] of the model (At, Put).  The classes       *)
(* TransitGraph, Edge and BasicTraverser are required by the source but    *)
(* are not part of it; they are modelled from their description and from   *)
(* the way the source uses them (a lower-triangular matrix G whose empty   *)
(* cells hold 0).                                                          *)
(***************************************************************************)
EXTENDS Integers, Sequences, FiniteSets, TLC

VARIABLES pc, graph, input, result, history, mergeTopArgs, start, end, traverser,
          Q, D, callback, ticks, S, P, ranks, iterations, node, sweepStart, recorded,
          Mode, attempts

vars == <<pc, graph, input, result, history, mergeTopArgs, start, end, traverser,
          Q, D, callback, ticks, S, P, ranks, iterations, node, sweepStart, recorded,
          Mode, attempts>>

\* ------------------------------------------------------------------------
\* Bounds of the model

\* Largest number of nodes of a graph handed to dfs, bfs and the merge.
MaxNodes == 4

\* Largest number of nodes of a graph handed to dijkstra.
MaxDijkstraNodes == 3

\* Largest number of nodes of a graph handed to pageRank.
MaxRankNodes == 4

\* Number of calls of pageRank on the same graph.
MaxRuns == 2

\* Largest number of tasks other than bfs that the event loop runs.
MaxOtherTasks == 1

\* Largest number of nodes of a graph whose traversal by bfs is followed to
\* its end under fairness.
MaxFairNodes == 3

\* ------------------------------------------------------------------------
\* JavaScript values and arrays

\* The parameter `parent` of the first call of dfsExplore is not passed.
Undefined == -1

\* if (parent): undefined and the number 0 are both falsy.
Truthy(v) == v # Undefined /\ v # 0

At(a, i) == a[i + 1]

Put(a, i, v) == [a EXCEPT ![i + 1] = v]

\* Arrays are built as tuples: SubSeq turns the function into one.
Fill(n, v) == SubSeq([k \in 1..n |-> v], 1, n)

\* a.splice(i, 1): removes the element at index i, nothing when i >= length.
Splice(a, i) ==
  IF i < Len(a)
    THEN SubSeq([k \in 1..(Len(a) - 1) |-> IF k <= i THEN a[k] ELSE a[k + 1]],
                1, Len(a) - 1)
    ELSE a

\* a.indexOf(v), -1 when absent.
IndexOf(a, v) ==
  IF \E k \in 1..Len(a) : a[k] = v
    THEN (CHOOSE k \in 1..Len(a) : a[k] = v /\ \A m \in 1..(k - 1) : a[m] # v) - 1
    ELSE -1

\* ------------------------------------------------------------------------
\* Cells of the adjacency matrix

\* The number 0: no edge.
Zero == [type |-> "0", weight |-> 0]

\* null: a cell merge() marks for removal.
Null == [type |-> "null", weight |-> 0]

\* An empty slot of an array that was extended past its length.
Hole == [type |-> "undefined", weight |-> 0]

\* Reading .type of null or undefined throws a TypeError.
Thrown == [type |-> "TypeError", weight |-> 0]

NoObject(c) == c \in {Null, Hole, Thrown}

\* The cells of the graphs the merge is run on.
RouteCell == [type |-> "route", weight |-> 5]

TransferCell == [type |-> "transfer", weight |-> 1]

\* ------------------------------------------------------------------------
\* Edge, TransitGraph, BasicTraverser

Edge(type, origin, destination, weight) ==
  [type |-> type, origin |-> origin, destination |-> destination, weight |-> weight]

LowerTriangle(n) == SubSeq([i \in 1..n |-> Fill(i - 1, Zero)], 1, n)

RECURSIVE AddEdges(_, _, _)
AddEdges(G, edgeList, k) ==
  IF k > Len(edgeList) THEN G
  ELSE LET e  == edgeList[k]
           hi == IF e.origin > e.destination THEN e.origin ELSE e.destination
           lo == IF e.origin > e.destination THEN e.destination ELSE e.origin
       IN AddEdges([G EXCEPT ![hi + 1][lo + 1] = [type |-> e.type, weight |-> e.weight]],
                   edgeList, k + 1)

\* new TransitGraph(edgeList, numNodes, stops)
TransitGraph(edgeList, numNodes, stops) ==
  [G |-> AddEdges(LowerTriangle(numNodes), edgeList, 1),
   numNodes |-> numNodes,
   stops |-> stops]

\* The stored cell of the unordered pair u, v; there is no cell for u = v.
Cell(g, u, v) ==
  IF u = v THEN Zero
  ELSE IF u > v THEN At(At(g.G, u), v) ELSE At(At(g.G, v), u)

edgeExists(g, u, v) == Cell(g, u, v) # Zero

getWeight(g, u, v) == Cell(g, u, v).weight

createEdge(g, u, v) == Edge(Cell(g, u, v).type, u, v, Cell(g, u, v).weight)

length(g) == g.numNodes

RECURSIVE CollectEdges(_, _, _, _)
\* The cells below the diagonal that satisfy keep, row by row, as edges
\* from the row's node to the column's node.
CollectEdges(G, i, j, transferOnly) ==
  IF i >= Len(G) THEN <<>>
  ELSE IF j >= i THEN CollectEdges(G, i + 1, 0, transferOnly)
  ELSE LET c == At(At(G, i), j)
           keep == IF transferOnly THEN c.type = "transfer" ELSE c # Zero
       IN (IF keep THEN <<Edge(c.type, i, j, c.weight)>> ELSE <<>>)
            \o CollectEdges(G, i, j + 1, transferOnly)

getTransferEdges(g) == CollectEdges(g.G, 0, 0, TRUE)

\* A stop is modelled by the set of the original stops it stands for.
mergeWith(stopA, stopB) == stopA \cup stopB

BasicTraverser == [visitedNodes |-> <<>>, events |-> <<>>]

Event(ev, origin, destination, weight, n) ==
  [ev |-> ev, origin |-> origin, destination |-> destination, weight |-> weight, n |-> n]

visitNode(t, n) ==
  [visitedNodes |-> Append(t.visitedNodes, n),
   events |-> Append(t.events, Event("visitNode", n, n, 0, n))]

visit(t, e) ==
  [t EXCEPT !.events = Append(@, Event("visit", e.origin, e.destination, e.weight, 0))]

leave(t, e) ==
  [t EXCEPT !.events = Append(@, Event("leave", e.origin, e.destination, e.weight, 0))]

summary(t, n) ==
  [t EXCEPT !.events = Append(@, Event("summary", 0, 0, 0, n))]

\* ------------------------------------------------------------------------
\* Depth-first search

RECURSIVE dfsExplore(_, _, _, _), dfsScan(_, _, _, _)

\* The scan of dfsExplore stopping one node short of the last.
dfsScanStopsShort(g, st, n, i) ==
  IF i >= g.numNodes - 1 THEN st
  ELSE dfsScan(g,
               IF edgeExists(g, n, i) /\ ~At(st.D, i) THEN dfsExplore(g, st, i, n) ELSE st,
               n, i + 1)

\* st = [D, t]: the visited flags and the traverser.
dfsExplore(g, st, n, parent) ==
  LET marked  == [st EXCEPT !.D = Put(@, n, TRUE)]
      entered == IF Truthy(parent)
                   THEN [marked EXCEPT !.t = visit(@, createEdge(g, parent, n))]
                   ELSE marked
      noted   == [entered EXCEPT !.t = visitNode(@, n)]
      scanned == dfsScan(g, noted, n, 0)
  IN IF Truthy(parent)
       THEN [scanned EXCEPT !.t = leave(@, createEdge(g, n, parent))]
       ELSE scanned

dfsScan(g, st, n, i) ==
  IF i >= g.numNodes THEN st
  ELSE dfsScan(g,
               IF edgeExists(g, n, i) /\ ~At(st.D, i) THEN dfsExplore(g, st, i, n) ELSE st,
               n, i + 1)

\* dfs(graph, node, traverser): the traverser after the call.
dfs(g, n, t) ==
  LET explored == dfsExplore(g, [D |-> Fill(g.numNodes, FALSE), t |-> t], n, Undefined).t
  IN summary(explored, Len(explored.visitedNodes))

\* ------------------------------------------------------------------------
\* Merge of the nodes joined by transfer edges

\* a[i] where i may be past the end of the array.
Read(a, i) == IF i < Len(a) THEN At(a, i) ELSE Hole

\* a[i] = v where i may be past the end of the array.
Store(a, i, v) ==
  IF i < Len(a) THEN Put(a, i, v) ELSE a \o Fill(i - Len(a), Hole) \o <<v>>

\* newGraph[r][c]
Get(ng, r, c) == Read(At(ng, r), c)

\* newGraph[r][c] = v
SetCell(ng, r, c, v) == Put(ng, r, Store(At(ng, r), c, v))

MergedTransfer == [type |-> "transfer", weight |-> -1]

MergedRoute == [type |-> "route", weight |-> -1]

\* mergeEdges that hands back a lone edge as it is, weight included.
mergeEdgesKeepsWeight(edgeA, edgeB) ==
  IF edgeA = Zero THEN edgeB
  ELSE IF edgeB = Zero THEN edgeA
  ELSE IF edgeA.type = "transfer" \/ edgeB.type = "transfer" THEN MergedTransfer
  ELSE MergedRoute

\* mergeEdges in which a route edge prevails over a transfer edge.
mergeEdgesRouteFirst(edgeA, edgeB) ==
  IF edgeA = Zero /\ edgeB = Zero THEN Zero
  ELSE IF NoObject(edgeA) THEN Thrown
  ELSE IF edgeA.type = "route" THEN MergedRoute
  ELSE IF NoObject(edgeB) THEN Thrown
  ELSE IF edgeB.type = "route" THEN MergedRoute
  ELSE MergedTransfer

mergeEdges(edgeA, edgeB) ==
  IF edgeA = Zero /\ edgeB = Zero THEN Zero
  ELSE IF NoObject(edgeA) THEN Thrown
  ELSE IF edgeA.type = "transfer" THEN MergedTransfer
  ELSE IF NoObject(edgeB) THEN Thrown
  ELSE IF edgeB.type = "transfer" THEN MergedTransfer
  ELSE MergedRoute

RECURSIVE horizontalOverlapFrom(_, _, _, _, _)
horizontalOverlapFrom(ng, loIndex, hiIndex, unionIndex, i) ==
  IF i >= loIndex THEN ng
  ELSE LET united == SetCell(ng, unionIndex, i,
                             mergeEdges(Get(ng, loIndex, i), Get(ng, hiIndex, i)))
       IN horizontalOverlapFrom(SetCell(united, loIndex, i, Null),
                                loIndex, hiIndex, unionIndex, i + 1)

horizontalOverlap(ng, loIndex, hiIndex, unionIndex) ==
  horizontalOverlapFrom(ng, loIndex, hiIndex, unionIndex, 0)

RECURSIVE hiOvershootUnite(_, _, _, _), hiOvershootClear(_, _, _)
hiOvershootUnite(ng, hiIndex, unionIndex, i) ==
  IF i >= hiIndex THEN ng
  ELSE hiOvershootUnite(SetCell(ng, unionIndex, i, mergeEdges(Get(ng, hiIndex, i), Zero)),
                        hiIndex, unionIndex, i + 1)

hiOvershootClear(ng, hiIndex, i) ==
  IF i >= hiIndex THEN ng
  ELSE hiOvershootClear(SetCell(ng, hiIndex, i, Null), hiIndex, i + 1)

horizontalHiOvershoot(ng, loIndex, hiIndex, unionIndex) ==
  hiOvershootClear(hiOvershootUnite(ng, hiIndex, unionIndex, loIndex + 1), hiIndex, 0)

RECURSIVE verticalOverlapFrom(_, _, _, _, _)
verticalOverlapFrom(ng, loIndex, hiIndex, unionIndex, i) ==
  IF i >= unionIndex THEN ng
  ELSE LET united == SetCell(ng, unionIndex, i,
                             mergeEdges(Get(ng, i, loIndex), Get(ng, i, hiIndex)))
           cleared == SetCell(SetCell(united, i, loIndex, Null), i, hiIndex, Null)
       IN verticalOverlapFrom(cleared, loIndex, hiIndex, unionIndex, i + 1)

verticalOverlap(ng, loIndex, hiIndex, unionIndex) ==
  verticalOverlapFrom(ng, loIndex, hiIndex, unionIndex, hiIndex + 1)

RECURSIVE verticalLoOvershootFrom(_, _, _, _, _)
\* verticalLoOvershoot that merges the lo cell with 0 instead of the cell
\* of the union row.
verticalLoOvershootDropsHi(ng, loIndex, hiIndex, unionIndex, i) ==
  IF i >= hiIndex THEN ng
  ELSE LET overlap == Get(ng, i, loIndex)
           united == SetCell(ng, unionIndex, i, mergeEdges(overlap, Zero))
       IN verticalLoOvershootFrom(SetCell(united, i, loIndex, Null),
                                  loIndex, hiIndex, unionIndex, i + 1)

verticalLoOvershootFrom(ng, loIndex, hiIndex, unionIndex, i) ==
  IF i >= hiIndex THEN ng
  ELSE LET overlap == Get(ng, i, loIndex)
           united == SetCell(ng, unionIndex, i, mergeEdges(overlap, Get(ng, unionIndex, i)))
       IN verticalLoOvershootFrom(SetCell(united, i, loIndex, Null),
                                  loIndex, hiIndex, unionIndex, i + 1)

verticalLoOvershoot(ng, loIndex, hiIndex, unionIndex) ==
  verticalLoOvershootFrom(ng, loIndex, hiIndex, unionIndex, loIndex + 1)

\* The removal of the first null of a row only.
removeNullOnce(row) ==
  IF IndexOf(row, Null) = -1 THEN row ELSE Splice(row, IndexOf(row, Null))

RECURSIVE removeNull(_)
\* while (row.indexOf(null) !== -1) row.splice(row.indexOf(null), 1)
removeNull(row) ==
  IF IndexOf(row, Null) = -1 THEN row ELSE removeNull(Splice(row, IndexOf(row, Null)))

\* The stops of merge() with a second splice that forgets the first.
mergeStopsSplicesHi(newStops, loIndex, hiIndex) ==
  LET newStop == mergeWith(At(newStops, loIndex), At(newStops, hiIndex))
  IN Splice(Splice(Append(newStops, newStop), loIndex), hiIndex)

\* The stops of merge(): the merged stop is pushed, the two originals removed.
mergeStops(newStops, loIndex, hiIndex) ==
  LET newStop == mergeWith(At(newStops, loIndex), At(newStops, hiIndex))
  IN Splice(Splice(Append(newStops, newStop), loIndex), hiIndex - 1)

\* The matrix of merge().
mergeRows(newGraph, loIndex, hiIndex) ==
  LET pushed     == Append(newGraph, Fill(Len(newGraph) - 1, Zero))
      unionIndex == Len(pushed) - 1
      h1 == horizontalOverlap(pushed, loIndex, hiIndex, unionIndex)
      h2 == horizontalHiOvershoot(h1, loIndex, hiIndex, unionIndex)
      v1 == verticalOverlap(h2, loIndex, hiIndex, unionIndex)
      v2 == verticalLoOvershoot(v1, loIndex, hiIndex, unionIndex)
      unionRow == Splice(Splice(At(v2, unionIndex), loIndex), hiIndex - 1)
      trimmed  == Put(v2, unionIndex, unionRow)
      removed  == Splice(Splice(trimmed, loIndex), hiIndex - 1)
  IN SubSeq([i \in 1..Len(removed) |->
               IF i < Len(removed) THEN removeNull(removed[i]) ELSE removed[i]],
            1, Len(removed))

\* merge(loIndex, hiIndex) on the working copies [newGraph, newStops].
merge(w, loIndex, hiIndex) ==
  [newGraph |-> mergeRows(w.newGraph, loIndex, hiIndex),
   newStops |-> mergeStops(w.newStops, loIndex, hiIndex)]

mergeTop(w, indexA, indexB) ==
  IF indexA < indexB THEN merge(w, indexA, indexB) ELSE merge(w, indexB, indexA)

RECURSIVE nodeGroupingsFrom(_, _, _, _)
\* One dfs over the transfer graph from every node not yet seen.
nodeGroupingsFrom(transferGraph, n, seenNodes, nodeGroupings) ==
  IF n >= Len(transferGraph.G) THEN nodeGroupings
  ELSE IF IndexOf(seenNodes, n) = -1
    THEN LET visitedNodes == dfs(transferGraph, n, BasicTraverser).visitedNodes
         IN nodeGroupingsFrom(transferGraph, n + 1, seenNodes \o visitedNodes,
                              Append(nodeGroupings, visitedNodes))
    ELSE nodeGroupingsFrom(transferGraph, n + 1, seenNodes, nodeGroupings)

discoverGroupings(g) ==
  nodeGroupingsFrom(TransitGraph(getTransferEdges(g), g.numNodes, g.stops), 0, <<>>, <<>>)

\* The filter keeping the groupings of more than two nodes.
nodesToMergeOverTwo(g) == SelectSeq(discoverGroupings(g), LAMBDA e : Len(e) > 2)

nodesToMerge(g) == SelectSeq(discoverGroupings(g), LAMBDA e : Len(e) > 1)

\* An array handed on as it is: the same object, not a copy of it.
sliceShares(a) == [array |-> a, copy |-> FALSE]

\* a.slice(): a new array with the elements of a.
slice(a) == [array |-> a, copy |-> TRUE]

\* The working copies of one pass of the loop: newGraph, a new array of
\* copies of the rows of g, and newStops, a copy of the stops of g.
\* rowCopied and stopsCopied tell which of them are objects of their own.
workingCopy(g) ==
  [newGraph    |-> SubSeq([i \in 1..Len(g.G) |-> slice(g.G[i]).array], 1, Len(g.G)),
   rowCopied   |-> SubSeq([i \in 1..Len(g.G) |-> slice(g.G[i]).copy], 1, Len(g.G)),
   newStops    |-> slice(g.stops).array,
   stopsCopied |-> slice(g.stops).copy]

\* The arguments of the call of mergeTop taken in the other order.
topArgsSwapped(g) ==
  LET top == nodesToMerge(g)[1] IN [indexA |-> At(top, 1), indexB |-> At(top, 0)]

\* The arguments of the call of mergeTop.
topArgs(g) ==
  LET top == nodesToMerge(g)[1] IN [indexA |-> At(top, 0), indexB |-> At(top, 1)]

\* mergeOnce that forgets that the new graph has one node less.
mergeOnceKeepsCount(g) ==
  LET args == topArgs(g)
      w    == mergeTop(workingCopy(g), args.indexA, args.indexB)
  IN TransitGraph(CollectEdges(w.newGraph, 0, 0, FALSE), g.numNodes, w.newStops)

\* One pass of the body of the while loop: the graph that replaces g.
mergeOnce(g) ==
  LET args == topArgs(g)
      w    == mergeTop(workingCopy(g), args.indexA, args.indexB)
      newNumNodes == g.numNodes - 1
      newEdgeList == CollectEdges(w.newGraph, 0, 0, FALSE)
  IN TransitGraph(newEdgeList, newNumNodes, w.newStops)

\* The index a node that is not merged has in the new graph.
shifted(loIndex, hiIndex, k) ==
  IF k < loIndex THEN k ELSE IF k < hiIndex THEN k - 1 ELSE k - 2

\* The graph g as the pass of the loop that replaces it leaves it: an array
\* of g that the working copies share holds what merge() wrote to it.
leftBehind(g) ==
  LET w0 == workingCopy(g)
      args == topArgs(g)
      w  == mergeTop(w0, args.indexA, args.indexB)
      loIndex == IF args.indexA < args.indexB THEN args.indexA ELSE args.indexB
      hiIndex == IF args.indexA < args.indexB THEN args.indexB ELSE args.indexA
      written(i) == IF i \in {loIndex, hiIndex} THEN Fill(i, Null)
                    ELSE At(w.newGraph, shifted(loIndex, hiIndex, i))
  IN [G        |-> SubSeq([i \in 1..Len(g.G) |->
                             IF w0.rowCopied[i] THEN g.G[i] ELSE written(i - 1)],
                          1, Len(g.G)),
      numNodes |-> g.numNodes,
      stops    |-> IF w0.stopsCopied THEN g.stops ELSE w.newStops]

NoGraph == [G |-> <<>>, numNodes |-> 0, stops |-> <<>>]

ReturnUndefined == [undefined |-> TRUE, graph |-> NoGraph]

Return(g) == [undefined |-> FALSE, graph |-> g]

\* ------------------------------------------------------------------------
\* Inputs: the graphs an external loader can build

Pairs(n) == {p \in (0..(n - 1)) \X (0..(n - 1)) : p[2] < p[1]}

\* The matrix in which the pair <<i, j>>, j < i, holds cells[<<i, j>>].
MatrixOf(n, cells) ==
  SubSeq([i \in 1..n |-> SubSeq([j \in 1..(i - 1) |-> cells[<<i - 1, j - 1>>]], 1, i - 1)],
         1, n)

StopsOf(n) == SubSeq([k \in 1..n |-> {k - 1}], 1, n)

GraphOf(n, cells) ==
  TransitGraph(CollectEdges(MatrixOf(n, cells), 0, 0, FALSE), n, StopsOf(n))

RouteGraphs(n) == {GraphOf(n, cells) : cells \in [Pairs(n) -> {Zero, RouteCell}]}

TypedGraphs(n) == {GraphOf(n, cells) : cells \in [Pairs(n) -> {Zero, RouteCell, TransferCell}]}

\* ------------------------------------------------------------------------
\* State of the operations that are not running

NoTraverser == [visitedNodes |-> <<>>, events |-> <<>>]

IdleMerge ==
  input = NoGraph /\ result = ReturnUndefined /\ history = <<>> /\ mergeTopArgs = <<>>

IdleSearch == start = 0 /\ end = 0 /\ traverser = NoTraverser

NoCallback == [supplied |-> FALSE, calls |-> 0]

IdleBfs == Q = <<>> /\ D = <<>> /\ callback = NoCallback /\ ticks = <<>>

IdleDijkstra == S = <<>> /\ P = <<>>

IdleRank ==
  ranks = <<>> /\ iterations = 0 /\ node = 0 /\ sweepStart = <<>> /\ recorded = <<>>

NoEnum == [declared |-> <<>>, ALL |-> <<>>]

IdleEnum == Mode = NoEnum /\ attempts = <<>>

\* ------------------------------------------------------------------------
\* mergeTransferNodes(graph)

NotMerge == <<start, end, traverser, Q, D, callback, ticks, S, P, ranks, iterations, node,
              sweepStart, recorded, Mode, attempts>>

InitMerge ==
  /\ pc = "call"
  /\ \E n \in 1..MaxNodes : graph \in TypedGraphs(n)
  /\ IdleMerge /\ IdleSearch /\ IdleBfs /\ IdleDijkstra /\ IdleRank /\ IdleEnum

\* The first check returning the graph it was given.
mergeNothingReturnsInput ==
  /\ pc = "call"
  /\ Len(getTransferEdges(graph)) = 0
  /\ pc' = "returned"
  /\ input' = graph
  /\ result' = Return(graph)
  /\ UNCHANGED <<graph, history, mergeTopArgs>>
  /\ UNCHANGED NotMerge

\* if (graph.getTransferEdges().length === 0) return undefined;
mergeNothing ==
  /\ pc = "call"
  /\ Len(getTransferEdges(graph)) = 0
  /\ pc' = "returned"
  /\ input' = graph
  /\ result' = ReturnUndefined
  /\ UNCHANGED <<graph, history, mergeTopArgs>>
  /\ UNCHANGED NotMerge

mergeEnter ==
  /\ pc = "call"
  /\ Len(getTransferEdges(graph)) # 0
  /\ pc' = "while"
  /\ input' = graph
  /\ UNCHANGED <<graph, result, history, mergeTopArgs>>
  /\ UNCHANGED NotMerge

\* One iteration of while (graph.getTransferEdges().length > 0).
mergeIteration ==
  /\ pc = "while"
  /\ Len(getTransferEdges(graph)) > 0
  /\ IF Len(nodesToMerge(graph)) = 0
       THEN pc' = "TypeError" /\ UNCHANGED <<graph, history, mergeTopArgs>>
       ELSE /\ graph' = mergeOnce(graph)
            /\ history' = Append(history, leftBehind(graph))
            /\ mergeTopArgs' = Append(mergeTopArgs, topArgs(graph))
            /\ pc' = "while"
  /\ UNCHANGED <<input, result>>
  /\ UNCHANGED NotMerge

\* return graph;
mergeReturn ==
  /\ pc = "while"
  /\ Len(getTransferEdges(graph)) = 0
  /\ pc' = "returned"
  /\ result' = Return(graph)
  /\ UNCHANGED <<graph, input, history, mergeTopArgs>>
  /\ UNCHANGED NotMerge

NextMerge == mergeNothing \/ mergeEnter \/ mergeIteration \/ mergeReturn

SpecMerge == InitMerge /\ [][NextMerge]_vars

\* ------------------------------------------------------------------------
\* Properties of mergeTransferNodes

Nodes(g) == 0..(g.numNodes - 1)

\* The unordered pairs of g joined by a transfer edge, read cell by cell.
TransferPairs(g) == {p \in Pairs(g.numNodes) : At(At(g.G, p[1]), p[2]).type = "transfer"}

WellFormed(g) ==
  /\ g.numNodes >= 1
  /\ Len(g.G) = g.numNodes
  /\ Len(g.stops) = g.numNodes
  /\ \A i \in Nodes(g) : Len(At(g.G, i)) = i
  /\ \A p \in Pairs(g.numNodes) : At(At(g.G, p[1]), p[2]).type \in {"0", "route", "transfer"}

\* C1: a graph with exactly one transfer edge, between A and B, is returned
\* with one node less and no transfer edge; its last node stands for A and
\* B, and every node that had a route edge to A or to B has an edge of type
\* route and weight -1 to that last node.
C1_MergeOneTransferEdge ==
  (pc = "returned" /\ Cardinality(TransferPairs(input)) = 1) =>
    LET e == CHOOSE p \in TransferPairs(input) : TRUE
        A == e[1]
        B == e[2]
        r == result.graph
        m == r.numNodes - 1
    IN /\ ~result.undefined
       /\ WellFormed(r)
       /\ r.numNodes = input.numNodes - 1
       /\ TransferPairs(r) = {}
       /\ At(r.stops, m) = {A, B}
       /\ \A w \in Nodes(input) \ {A, B} :
            (Cell(input, w, A).type = "route" \/ Cell(input, w, B).type = "route") =>
              \E k \in 0..(m - 1) : At(r.stops, k) = {w} /\ Cell(r, k, m) = MergedRoute

\* A graph of four nodes whose only transfer edge joins nodes 0 and 2 has
\* been merged, node 1 having had a route edge to one of them.
C1_Witness ==
  /\ pc = "returned"
  /\ input.numNodes = 4
  /\ TransferPairs(input) = {<<2, 0>>}
  /\ Cell(input, 1, 2).type = "route"
  /\ Cell(input, 3, 0).type = "route"
  /\ ~result.undefined

\* C2: the merge terminates: every pass of the loop replaces the graph by a
\* well-formed one with exactly one node less (so there are at most
\* numNodes - 1 passes), no pass fails for want of a pair to merge, and
\* the graph returned has no transfer edge.
C2_MergeTerminates ==
  /\ pc # "TypeError"
  /\ pc \in {"while", "returned"} =>
       /\ WellFormed(graph)
       /\ graph.numNodes = input.numNodes - Len(history)
       /\ Len(history) <= input.numNodes - 1
  /\ (pc = "returned" /\ TransferPairs(input) # {}) =>
       /\ ~result.undefined
       /\ result.graph = graph
       /\ Len(history) >= 1
       /\ TransferPairs(result.graph) = {}

\* A merge that took three passes has returned.
C2_Witness == pc = "returned" /\ Len(history) = 3 /\ ~result.undefined

\* C3: the merge returns undefined, and neither the graph it was given nor a
\* copy of it, exactly when that graph has no transfer edge.
C3_NothingToMerge ==
  pc = "returned" =>
    /\ result.undefined <=> TransferPairs(input) = {}
    /\ TransferPairs(input) = {} => result = ReturnUndefined /\ result.graph # input

\* The merge has returned undefined for a graph with route edges only.
C3_Witness ==
  /\ pc = "returned"
  /\ result.undefined
  /\ input.numNodes = 3
  /\ \A p \in Pairs(3) : At(At(input.G, p[1]), p[2]).type = "route"

\* The k-th pass of the loop: the graph it replaced, the graph it built and
\* the two indices it merged.
StepOld(k) == history[k]

StepNew(k) == IF k < Len(history) THEN history[k + 1] ELSE graph

StepLo(k) ==
  IF mergeTopArgs[k].indexA < mergeTopArgs[k].indexB
    THEN mergeTopArgs[k].indexA ELSE mergeTopArgs[k].indexB

StepHi(k) ==
  IF mergeTopArgs[k].indexA < mergeTopArgs[k].indexB
    THEN mergeTopArgs[k].indexB ELSE mergeTopArgs[k].indexA

\* The pass that has just ended, if there is one.  Every pass is the last
\* one in the state it leads to, so a property of the last pass that holds
\* in every state holds of every pass.
LastPass == IF history = <<>> THEN {} ELSE {Len(history)}

\* The nodes of the k-th replaced graph that the pass did not merge.
Survivors(k) == Nodes(StepOld(k)) \ {StepLo(k), StepHi(k)}

\* The index in the new graph of a node by the rule new(k) = k below lo,
\* k - 1 between lo and hi, k - 2 above hi.
NewIndex(k, u) ==
  IF u < StepLo(k) THEN u ELSE IF u < StepHi(k) THEN u - 1 ELSE u - 2

\* The pairs of stops of g whose nodes are joined by an edge.
StopLinks(g) ==
  {{At(g.stops, p[1]), At(g.stops, p[2])} : p \in {q \in Pairs(g.numNodes) : Cell(g, q[1], q[2]) # Zero}}

\* C11: a pass of the loop on a graph of N stops builds N-1 stops: the two
\* merged stops are gone, the last stop is stops[lo].mergeWith(stops[hi]),
\* every other stop is there once and in the order it had, and the stops
\* sit at the nodes they belong to: two stops of the new graph are joined
\* by an edge exactly when they, or for the merged stop one of its two
\* originals, were joined in the old one.
C11_MergeStops ==
  \A k \in LastPass :
    LET old == StepOld(k)
        new == StepNew(k)
        lo  == StepLo(k)
        hi  == StepHi(k)
        N   == Len(old.stops)
        last == At(new.stops, N - 2)
    IN /\ lo \in Nodes(old) /\ hi \in Nodes(old) /\ lo < hi
       /\ Len(new.stops) = N - 1
       /\ new.numNodes = N - 1
       /\ last = mergeWith(At(old.stops, lo), At(old.stops, hi))
       /\ \A j \in Nodes(new) : At(new.stops, j) \notin {At(old.stops, lo), At(old.stops, hi)}
       /\ \A u \in Survivors(k) :
            /\ Cardinality({j \in Nodes(new) : At(new.stops, j) = At(old.stops, u)}) = 1
            /\ At(new.stops, NewIndex(k, u)) = At(old.stops, u)
       /\ \A u, v \in Survivors(k) :
            u < v => IndexOf(new.stops, At(old.stops, u)) < IndexOf(new.stops, At(old.stops, v))
       /\ LET now(stop) == IF stop \in {At(old.stops, lo), At(old.stops, hi)}
                              THEN last ELSE stop
          IN StopLinks(new) = {{now(stop) : stop \in link} : link \in StopLinks(old)} \ {{last}}

\* A pass has merged nodes 0 and 2 of a graph of four nodes, a stop lying
\* between them and a stop after them, and node 1 had a route to node 3.
C11_Witness ==
  /\ Len(history) >= 1
  /\ history[1].numNodes = 4
  /\ mergeTopArgs[1] = [indexA |-> 0, indexB |-> 2]
  /\ Cell(history[1], 3, 1).type = "route"
  /\ At(StepNew(1).stops, 2) = {0, 2}

\* C12: the merge writes to no graph it was given or replaced: the graph a
\* pass of the loop replaces is, after the pass, what it was before it (G,
\* numNodes and stops), the first of them is the graph the merge was called
\* with, and no later pass changes a graph that was replaced.
C12_NoMutation ==
  [][/\ pc = "while" => input' = input
     /\ (pc = "while" /\ graph' # graph) =>
          /\ history' = Append(history, graph)
          /\ history'[1] = input
          /\ \A k \in 1..Len(history) :
               /\ history'[k].G = history[k].G
               /\ history'[k].numNodes = history[k].numNodes
               /\ history'[k].stops = history[k].stops]_vars

\* Two passes of the loop have run on a graph of four nodes.
C12_Witness ==
  /\ Len(history) = 2
  /\ input.numNodes = 4
  /\ history[1] = input
  /\ graph.numNodes = 2

\* The edge that stands for the edges a and b of the two merged nodes.
United(a, b) ==
  IF a = Zero /\ b = Zero THEN Zero
  ELSE IF a.type = "transfer" \/ b.type = "transfer" THEN MergedTransfer
  ELSE MergedRoute

\* C14: in a pass that merges lo < hi, for every other node w, below lo,
\* between lo and hi or above hi, the merged node has no edge to w when
\* neither lo nor hi had one, a transfer edge of weight -1 when one of the
\* two edges was a transfer, and a route edge of weight -1 otherwise; the
\* edge lo - hi counts for nothing: the merged node's row has one cell for
\* every other node and none for itself.
C14_UnionRule ==
  \A k \in LastPass :
    LET old == StepOld(k)
        new == StepNew(k)
        m   == new.numNodes - 1
    IN /\ Len(At(new.G, m)) = m
       /\ \A w \in Survivors(k) :
            /\ NewIndex(k, w) \in 0..(m - 1)
            /\ At(At(new.G, m), NewIndex(k, w))
                 = United(Cell(old, w, StepLo(k)), Cell(old, w, StepHi(k)))

\* Two passes have met the three positions: the first merged nodes 0 and 2
\* with node 1, joined to 0 by a route, between them and node 3, joined to
\* 2 by a transfer, above; the second merged nodes 1 and 2 with node 0,
\* joined to both, below.
C14_Witness ==
  /\ Len(history) = 2
  /\ mergeTopArgs = <<[indexA |-> 0, indexB |-> 2], [indexA |-> 1, indexB |-> 2]>>
  /\ Cell(history[1], 1, 0).type = "route"
  /\ Cell(history[1], 1, 2) = Zero
  /\ Cell(history[1], 3, 2).type = "transfer"
  /\ Cell(history[1], 3, 0) = Zero
  /\ Cell(history[1], 3, 1).type = "route"
  /\ Cell(history[2], 0, 1) = RouteCell
  /\ Cell(history[2], 0, 2) = MergedRoute
  /\ Cell(graph, 0, 1) = MergedRoute

RECURSIVE TransferReach(_, _)
\* The nodes joined to a node of seen by a path of transfer edges.
TransferReach(g, seen) ==
  LET more == seen \cup {v \in Nodes(g) : \E u \in seen : Cell(g, u, v).type = "transfer"}
  IN IF more = seen THEN seen ELSE TransferReach(g, more)

TransferComponent(g, v) == TransferReach(g, {v})

Elements(a) == {a[k] : k \in 1..Len(a)}

\* C15: in every pass of the loop, on the graph the merge was given and on
\* every graph built by earlier passes, a graph with a transfer edge has a
\* component of two or more nodes, the groupings found by dfs are the
\* components of the transfer edges, the first grouping of more than one
\* node exists, and the two indices handed to mergeTop are two different
\* nodes of the graph; no pass fails for want of them.
C15_PairAlwaysFound ==
  /\ pc # "TypeError"
  /\ (pc = "while" /\ Len(getTransferEdges(graph)) > 0) =>
       LET groupings == discoverGroupings(graph)
           kept == nodesToMerge(graph)
       IN /\ \E v \in Nodes(graph) : Cardinality(TransferComponent(graph, v)) >= 2
          /\ \A k \in 1..Len(groupings) :
               /\ Len(groupings[k]) = Cardinality(Elements(groupings[k]))
               /\ Elements(groupings[k]) = TransferComponent(graph, groupings[k][1])
          /\ Len(kept) >= 1
          /\ Len(kept[1]) >= 2
  /\ \A k \in 1..Len(history) :
       /\ mergeTopArgs[k].indexA \in Nodes(history[k])
       /\ mergeTopArgs[k].indexB \in Nodes(history[k])
       /\ mergeTopArgs[k].indexA # mergeTopArgs[k].indexB

\* After one pass on a graph of four nodes with the transfer edges 0 - 1
\* and 2 - 3, the graph built by the pass has a transfer edge left and the
\* loop is about to look for a pair in it.
C15_Witness ==
  /\ pc = "while"
  /\ Len(history) = 1
  /\ TransferPairs(history[1]) = {<<1, 0>>, <<3, 2>>}
  /\ TransferPairs(graph) = {<<1, 0>>}

\* newGraph when merge() has returned in the k-th pass.
NewStructure(k) ==
  mergeTop(workingCopy(StepOld(k)), mergeTopArgs[k].indexA, mergeTopArgs[k].indexB).newGraph

\* C20: a pass that merges lo and hi keeps every edge between two nodes
\* that are neither lo nor hi: with new(k) = k below lo, k - 1 between lo
\* and hi and k - 2 above hi, the cell of new(u) and new(v) in the new
\* graph is the cell of u and v in the old one, the same edge with the
\* same type and weight or no edge; and the rows that merge() leaves have
\* one cell for every lower node and hold no null and no empty slot.
C20_OtherEdgesKept ==
  \A k \in LastPass :
    LET old == StepOld(k)
        new == StepNew(k)
        ng  == NewStructure(k)
    IN /\ Len(ng) = old.numNodes - 1
       /\ \A i \in 0..(Len(ng) - 1) :
            /\ Len(At(ng, i)) = i
            /\ \A j \in 0..(i - 1) : ~NoObject(At(At(ng, i), j))
       /\ \A u, v \in Survivors(k) :
            u > v =>
              /\ NewIndex(k, u) > NewIndex(k, v)
              /\ At(At(ng, NewIndex(k, u)), NewIndex(k, v)) = At(At(old.G, u), v)
              /\ Cell(new, NewIndex(k, u), NewIndex(k, v)) = Cell(old, u, v)

\* A pass has merged nodes 0 and 1 of a graph of four nodes in which nodes
\* 2 and 3, both above them, are joined by a route of weight 5 and node 3
\* is joined to node 1.
C20_Witness ==
  /\ Len(history) >= 1
  /\ history[1].numNodes = 4
  /\ mergeTopArgs[1] = [indexA |-> 0, indexB |-> 1]
  /\ Cell(history[1], 3, 2) = RouteCell
  /\ Cell(history[1], 3, 1) # Zero
  /\ Cell(StepNew(1), 1, 0) = RouteCell

\* The connected components of the transfer-only sub-graph of g; a node with
\* no transfer edge is a component of its own.
TransferComponents(g) == {TransferComponent(g, v) : v \in Nodes(g)}

\* Some node of cluster a has a route edge to some node of cluster b in g.
RouteBetween(g, a, b) == \E u \in a, v \in b : Cell(g, u, v).type = "route"

\* C21: the graph returned for an input with a transfer edge has as many
\* nodes as the transfer-only sub-graph of the input has connected
\* components, its stops stand for these components, one each, and two of
\* its nodes are joined by an edge exactly when some node of the one
\* cluster had a route edge to some node of the other in the input.
C21_ComponentsAndRoutes ==
  (pc = "returned" /\ ~result.undefined) =>
    LET r == result.graph
        clusters == TransferComponents(input)
    IN /\ r.numNodes = Cardinality(clusters)
       /\ Len(r.stops) = r.numNodes
       /\ Elements(r.stops) = clusters
       /\ \A p \in Pairs(r.numNodes) :
            Cell(r, p[1], p[2]) # Zero
              <=> RouteBetween(input, At(r.stops, p[1]), At(r.stops, p[2]))

\* The merge has returned two nodes for a graph of four nodes in which the
\* transfer edges 0 - 1 and 1 - 2 make one component, node 3 is a component
\* of its own, node 2 has a route edge to node 3 and node 0 a route edge to
\* node 2 inside the component.
C21_Witness ==
  /\ pc = "returned"
  /\ ~result.undefined
  /\ input.numNodes = 4
  /\ TransferPairs(input) = {<<1, 0>>, <<2, 1>>}
  /\ Cell(input, 3, 2).type = "route"
  /\ Cell(input, 2, 0).type = "route"
  /\ result.graph.numNodes = 2
  /\ Elements(result.graph.stops) = {{0, 1, 2}, {3}}
  /\ Cell(result.graph, 1, 0) # Zero

\* The nodes of g that have a transfer edge.
TransferNodes(g) == {v \in Nodes(g) : \E u \in Nodes(g) : Cell(g, u, v).type = "transfer"}

\* The nodes a transfer edge of g joins to node v.
TransferNeighbours(g, v) == {u \in Nodes(g) : Cell(g, u, v).type = "transfer"}

Lowest(nodes) == CHOOSE x \in nodes : \A y \in nodes : x <= y

RECURSIVE SumLen(_, _)
\* The number of entries of the first k groupings together.
SumLen(groupings, k) ==
  IF k = 0 THEN 0 ELSE Len(groupings[k]) + SumLen(groupings, k - 1)

\* C22: in every pass of the loop the two indices handed to mergeTop are
\* joined by a transfer edge of the graph of that pass; the first is the
\* node the dfs started from, the lowest node of the first component of
\* more than one node, the second is its lowest transfer neighbour and is
\* the greater of the two, so the lo and hi that mergeTop hands to merge
\* are the two indices in the order it was given them; and the groupings of the discovery loop hold
\* every node of the graph in exactly one grouping, once.
C22_OrderedPair ==
  \A k \in LastPass :
    LET old == StepOld(k)
        indexA == mergeTopArgs[k].indexA
        indexB == mergeTopArgs[k].indexB
        groupings == discoverGroupings(old)
    IN /\ Cell(old, indexA, indexB).type = "transfer"
       /\ indexA < indexB
       /\ indexA = Lowest(TransferNodes(old))
       /\ indexB = Lowest(TransferNeighbours(old, indexA))
       /\ StepLo(k) = indexA
       /\ StepHi(k) = indexB
       /\ SumLen(groupings, Len(groupings)) = old.numNodes
       /\ \A v \in Nodes(old) :
            Cardinality({j \in 1..Len(groupings) : v \in Elements(groupings[j])}) = 1

\* A pass on a graph of four nodes in which node 0 has no transfer edge and
\* the transfer edges 1 - 3 and 2 - 3 make the first component of more than
\* one node: the dfs from node 1 finds node 3 first, and the pass has merged
\* nodes 1 and 3.
C22_Witness ==
  /\ Len(history) >= 1
  /\ history[1].numNodes = 4
  /\ TransferPairs(history[1]) = {<<3, 1>>, <<3, 2>>}
  /\ mergeTopArgs[1] = [indexA |-> 1, indexB |-> 3]


NotSearch == <<input, result, history, mergeTopArgs, end, Q, D, callback, ticks, S, P, ranks,
               iterations, node, sweepStart, recorded, Mode, attempts>>

InitDfs ==
  /\ pc = "call"
  /\ \E n \in 1..MaxNodes : graph \in RouteGraphs(n)
  /\ start \in Nodes(graph)
  /\ end = 0
  /\ traverser = NoTraverser
  /\ IdleMerge /\ IdleBfs /\ IdleDijkstra /\ IdleRank /\ IdleEnum

\* The whole call: dfs is synchronous.
dfsCall ==
  /\ pc = "call"
  /\ traverser' = dfs(graph, start, BasicTraverser)
  /\ pc' = "done"
  /\ UNCHANGED <<graph, start>>
  /\ UNCHANGED NotSearch

NextDfs == dfsCall

SpecDfs == InitDfs /\ [][NextDfs]_vars

\* ------------------------------------------------------------------------
\* Properties of dfs

RECURSIVE ReachFrom(_, _)
\* The nodes joined to a node of seen by a path of edges.
ReachFrom(g, seen) ==
  LET more == seen \cup {v \in Nodes(g) : \E u \in seen : Cell(g, u, v) # Zero}
  IN IF more = seen THEN seen ELSE ReachFrom(g, more)

Reachable(g, s) == ReachFrom(g, {s})

Connected(g) == Reachable(g, 0) = Nodes(g)

\* The positions of the events of one kind in the traverser's record.
EventsOf(kind) == {k \in 1..Len(traverser.events) : traverser.events[k].ev = kind}

\* C4: on a connected graph of N nodes dfs reports N-1 visit and N-1 leave
\* events from any start node: for every node but the start one visit of
\* the edge parent -> node and, later, one leave of the edge node -> parent.
C4_DfsTreeEdges ==
  (pc = "done" /\ Connected(graph)) =>
    LET ev == traverser.events
    IN /\ Cardinality(EventsOf("visit")) = graph.numNodes - 1
       /\ Cardinality(EventsOf("leave")) = graph.numNodes - 1
       /\ \A v \in Nodes(graph) \ {start} :
            \E k \in EventsOf("visit"), l \in EventsOf("leave") :
              /\ ev[k].destination = v
              /\ Cell(graph, ev[k].origin, v) # Zero
              /\ ev[l].origin = v
              /\ ev[l].destination = ev[k].origin
              /\ k < l

\* C5: dfs reports visitNode once for every node that can be reached from
\* the start and never for another node, and its one summary, the last
\* event, counts the nodes that can be reached.
C5_DfsVisitsOnce ==
  pc = "done" =>
    LET ev == traverser.events
    IN /\ \A v \in Nodes(graph) :
            Cardinality({k \in EventsOf("visitNode") : ev[k].n = v})
              = IF v \in Reachable(graph, start) THEN 1 ELSE 0
       /\ EventsOf("summary") = {Len(ev)}
       /\ ev[Len(ev)].n = Cardinality(Reachable(graph, start))
       /\ Connected(graph) => ev[Len(ev)].n = graph.numNodes

\* dfs has run from node 2 of a connected graph of four nodes with a cycle.
C5_Witness ==
  /\ pc = "done"
  /\ graph.numNodes = 4
  /\ start = 2
  /\ Connected(graph)
  /\ \A p \in {<<1, 0>>, <<2, 1>>, <<2, 0>>, <<3, 2>>} : Cell(graph, p[1], p[2]) # Zero

\* ------------------------------------------------------------------------
\* bfs(graph, startingNode, traverser, callback)

\* The body of the if of the scan loop without D[i] = true.
discoverUnmarked(st, g, n, i) ==
  [Q |-> Append(st.Q, i),
   D |-> st.D,
   t |-> visitNode(visit(st.t, createEdge(g, n, i)), n)]

\* The body of the if of the scan loop reporting the node it has found.
discoverReportsNeighbour(st, g, n, i) ==
  [Q |-> Append(st.Q, i),
   D |-> Put(st.D, i, TRUE),
   t |-> visitNode(visit(st.t, createEdge(g, n, i)), i)]

\* The body of the if of the scan loop; st = [Q, D, t].
discover(st, g, n, i) ==
  [Q |-> Append(st.Q, i),
   D |-> Put(st.D, i, TRUE),
   t |-> visitNode(visit(st.t, createEdge(g, n, i)), n)]

RECURSIVE bfsScan(_, _, _, _)
\* for (var i = 0; i < graph.G.length; i++) ...
bfsScan(st, g, n, i) ==
  IF i >= Len(g.G) THEN st
  ELSE bfsScan(IF edgeExists(g, n, i) /\ ~At(st.D, i) THEN discover(st, g, n, i) ELSE st,
               g, n, i + 1)

RECURSIVE bfsIterate(_, _)
\* An iterator that goes on with the next node until the queue is empty.
bfsIterateDrains(st, g) ==
  LET scanned == bfsScan([st EXCEPT !.Q = Tail(@)], g, Head(st.Q), 0)
  IN IF Len(scanned.Q) > 0 THEN bfsIterate(scanned, g) ELSE scanned

\* One run of the iterator of async.whilst: let node = Q.shift(), the scan.
bfsIterate(st, g) == bfsScan([st EXCEPT !.Q = Tail(@)], g, Head(st.Q), 0)

\* The number of visit events of a traverser.
Visits(t) == Cardinality({k \in 1..Len(t.events) : t.events[k].ev = "visit"})

\* The number of Q.shift() between two states of bfs: every push comes
\* with one visit event.
shifts(before, after) ==
  Len(before.Q) + (Visits(after.t) - Visits(before.t)) - Len(after.Q)

\* What the event loop ran in one tick: bfs or another task, and how many
\* nodes bfs took from the queue in it.
Tick(task, count) == [task |-> task, dequeued |-> count]

OtherTasks == Cardinality({k \in 1..Len(ticks) : ticks[k].task = "other"})

NotBfs == <<input, result, history, mergeTopArgs, end, S, P, ranks, iterations, node, sweepStart,
            recorded, Mode, attempts>>

InitBfs ==
  /\ pc = "call"
  /\ \E n \in 1..MaxNodes : graph \in RouteGraphs(n)
  /\ start \in Nodes(graph)
  /\ end = 0
  /\ traverser = NoTraverser
  /\ Q = <<>> /\ D = <<>> /\ ticks = <<>>
  /\ callback \in {[supplied |-> b, calls |-> 0] : b \in BOOLEAN}
  /\ IdleMerge /\ IdleDijkstra /\ IdleRank /\ IdleEnum

\* The call of bfs up to its return: the queue and the flags are set up,
\* the start is reported, and async.whilst, whose test holds, runs the
\* iterator once; the iterator ends by asking for the next tick.
bfsCall ==
  /\ pc = "call"
  /\ LET first == [Q |-> <<start>>,
                   D |-> Put(Fill(graph.numNodes, FALSE), start, TRUE),
                   t |-> visitNode(BasicTraverser, start)]
         st == bfsIterate(first, graph)
     IN /\ Q' = st.Q /\ D' = st.D /\ traverser' = st.t
        /\ ticks' = Append(ticks, Tick("bfs", shifts(first, st)))
  /\ pc' = "setImmediate"
  /\ UNCHANGED <<graph, start, callback>>
  /\ UNCHANGED NotBfs

\* A tick of the event loop: the callback of the iterator runs; the test
\* holds and the iterator runs again.
bfsTick ==
  /\ pc = "setImmediate"
  /\ Len(Q) > 0
  /\ LET now == [Q |-> Q, D |-> D, t |-> traverser]
         st  == bfsIterate(now, graph)
     IN /\ Q' = st.Q /\ D' = st.D /\ traverser' = st.t
        /\ ticks' = Append(ticks, Tick("bfs", shifts(now, st)))
  /\ pc' = "setImmediate"
  /\ UNCHANGED <<graph, start, callback>>
  /\ UNCHANGED NotBfs

\* The last function calling back twice.
bfsDoneCallsTwice ==
  /\ pc = "setImmediate"
  /\ Len(Q) = 0
  /\ traverser' = summary(traverser, Len(traverser.visitedNodes))
  /\ callback' = IF callback.supplied THEN [callback EXCEPT !.calls = @ + 2] ELSE callback
  /\ ticks' = Append(ticks, Tick("bfs", 0))
  /\ pc' = "done"
  /\ UNCHANGED <<graph, start, Q, D>>
  /\ UNCHANGED NotBfs

\* A tick of the event loop: the test fails and the last function runs.
bfsDone ==
  /\ pc = "setImmediate"
  /\ Len(Q) = 0
  /\ traverser' = summary(traverser, Len(traverser.visitedNodes))
  /\ callback' = IF callback.supplied THEN [callback EXCEPT !.calls = @ + 1] ELSE callback
  /\ ticks' = Append(ticks, Tick("bfs", 0))
  /\ pc' = "done"
  /\ UNCHANGED <<graph, start, Q, D>>
  /\ UNCHANGED NotBfs

\* A tick of the event loop in which another pending task runs: bfs is not
\* running, it waits for its setImmediate or has ended.
otherTask ==
  /\ pc \in {"setImmediate", "done"}
  /\ OtherTasks < MaxOtherTasks
  /\ ticks' = Append(ticks, Tick("other", 0))
  /\ UNCHANGED <<pc, graph, start, traverser, Q, D, callback>>
  /\ UNCHANGED NotBfs

NextBfs == bfsCall \/ bfsTick \/ bfsDone \/ otherTask

SpecBfs == InitBfs /\ [][NextBfs]_vars

\* The event loop runs every callback that setImmediate has queued, and
\* the call of bfs is made.
InitBfsFair == InitBfs /\ graph.numNodes <= MaxFairNodes

SpecBfsFair ==
  /\ InitBfsFair /\ [][NextBfs]_vars
  /\ WF_vars(bfsCall) /\ WF_vars(bfsTick) /\ WF_vars(bfsDone)

\* ------------------------------------------------------------------------
\* Properties of bfs

RECURSIVE HopsFrom(_, _, _, _)
\* The number of edges of a shortest path from a node of ball to v, where
\* ball holds the nodes at most k edges away; -1 when there is no path.
HopsFrom(g, ball, k, v) ==
  IF v \in ball THEN k
  ELSE LET more == ball \cup {w \in Nodes(g) : \E u \in ball : Cell(g, u, w) # Zero}
       IN IF more = ball THEN -1 ELSE HopsFrom(g, more, k + 1, v)

Hops(g, s, v) == HopsFrom(g, {s}, 0, v)

\* C8: bfs discovers nodes in non-decreasing order of their distance in
\* edges from the start, each one edge farther than the node it is
\* discovered from.
C8_BfsDistanceOrder ==
  pc \in {"setImmediate", "done"} =>
    LET ev == traverser.events
    IN /\ \A k \in EventsOf("visit") :
            /\ Hops(graph, start, ev[k].origin) >= 0
            /\ Hops(graph, start, ev[k].destination) = Hops(graph, start, ev[k].origin) + 1
       /\ \A k, l \in EventsOf("visit") :
            k < l => Hops(graph, start, ev[k].destination) <= Hops(graph, start, ev[l].destination)

\* bfs has finished on a graph of four nodes with a triangle, having
\* discovered nodes one and two edges away.
C8_Witness ==
  /\ pc = "done"
  /\ graph.numNodes = 4
  /\ start = 1
  /\ \A p \in {<<1, 0>>, <<2, 0>>, <<2, 1>>, <<3, 2>>} : Cell(graph, p[1], p[2]) # Zero
  /\ Cell(graph, 3, 1) = Zero
  /\ Cardinality(EventsOf("visit")) = 3

\* The ticks in which bfs ran, in order.
BfsTicks == SelectSeq(ticks, LAMBDA e : e.task = "bfs")

\* C17: bfs takes exactly one node from the queue in every tick it runs in:
\* the call itself scans the start node and returns, every later tick
\* scans one node, and the tick that finds the queue empty ends bfs in
\* that same tick; bfs is suspended once for every node it scans and
\* nowhere else, and another task can run in any of these gaps without
\* changing what bfs has built.
C17_OneNodePerTick ==
  /\ pc = "setImmediate" =>
       /\ Len(BfsTicks) >= 1
       /\ \A k \in 1..Len(BfsTicks) : BfsTicks[k].dequeued = 1
       /\ Len(BfsTicks) + Len(Q) <= Cardinality(Reachable(graph, start))
  /\ pc = "done" =>
       /\ \A k \in 1..(Len(BfsTicks) - 1) : BfsTicks[k].dequeued = 1
       /\ BfsTicks[Len(BfsTicks)].dequeued = 0
       /\ Len(BfsTicks) = Cardinality(Reachable(graph, start)) + 1
  /\ \A k \in 1..Len(ticks) : ticks[k].task = "other" => k > 1

\* On a path of three nodes another task has run between the scan of the
\* start node and the scan of the next node, and bfs has ended.
C17_Witness ==
  /\ pc = "done"
  /\ graph.numNodes = 3
  /\ Cardinality(Reachable(graph, start)) = 3
  /\ Len(ticks) = 5
  /\ ticks[1] = Tick("bfs", 1)
  /\ ticks[2] = Tick("other", 0)
  /\ ticks[3] = Tick("bfs", 1)

\* The state of a finished traversal: one summary, the last event, whose
\* stationsVisited is the number of visitNode events and of the nodes that
\* can be reached, and one call of the callback if there is one.
Completed ==
  LET ev == traverser.events
  IN /\ pc = "done"
     /\ Q = <<>>
     /\ EventsOf("summary") = {Len(ev)}
     /\ ev[Len(ev)].n = Cardinality(EventsOf("visitNode"))
     /\ ev[Len(ev)].n = Cardinality(Reachable(graph, start))
     /\ callback.calls = IF callback.supplied THEN 1 ELSE 0

\* C18: with an event loop that runs every queued callback, a traversal
\* that was started ends; when it has ended it has reported one summary,
\* counting the visitNode events, which are as many as the nodes that can
\* be reached, and has called the callback once if there is one; before
\* that it has reported no summary and called nothing, and after that it
\* reports nothing more.
C18_BfsCompletes ==
  /\ <>(pc = "done")
  /\ [](pc = "done" => Completed)
  /\ [](pc # "done" => EventsOf("summary") = {} /\ callback.calls = 0)
  /\ [][pc = "done" => traverser' = traverser /\ callback' = callback /\ pc' = "done"]_vars

\* A traversal of three nodes in a row, started at one end with a
\* callback, has ended and another task has run after its end.
C18_Witness ==
  /\ Completed
  /\ callback.supplied
  /\ graph.numNodes = 3
  /\ Cell(graph, 2, 0) = Zero
  /\ start = 0
  /\ Cardinality(Reachable(graph, start)) = 3
  /\ Len(BfsTicks) = 4
  /\ ticks[Len(ticks)].task = "other"

\* C19: the first event of bfs is visitNode of the start node; every other
\* visitNode event follows a visit event at once and carries the origin
\* of that edge, the node being scanned, never its destination, the node
\* found; every visit event is followed by such a visitNode event; so a
\* node that was found is in visitedNodes only if it has found a node.
C19_VisitNodeReportsScanned ==
  pc \in {"setImmediate", "done"} =>
    LET ev == traverser.events
    IN /\ ev[1] = Event("visitNode", start, start, 0, start)
       /\ \A k \in EventsOf("visitNode") \ {1} :
            /\ ev[k - 1].ev = "visit"
            /\ ev[k].n = ev[k - 1].origin
            /\ ev[k].n # ev[k - 1].destination
       /\ \A k \in EventsOf("visit") :
            k < Len(ev) /\ ev[k + 1].ev = "visitNode"
       /\ Len(traverser.visitedNodes) = Cardinality(EventsOf("visitNode"))
       /\ \A j \in 1..Len(traverser.visitedNodes) :
            LET v == traverser.visitedNodes[j]
            IN v = start \/ \E k, l \in EventsOf("visit") :
                              k < l /\ ev[k].destination = v /\ ev[l].origin = v

\* bfs has ended on a star of four nodes scanned from its centre 1: the
\* start node is reported four times and no other node at all.
C19_Witness ==
  /\ pc = "done"
  /\ graph.numNodes = 4
  /\ start = 1
  /\ traverser.visitedNodes = <<1, 1, 1, 1>>
  /\ Cardinality(EventsOf("visit")) = 3

\* ------------------------------------------------------------------------
\* dijkstra(graph, start, end, traverser)

\* var MAX = Infinity: a number no sum of weights of the model reaches.
Infinity == 999999

\* The weights of the edges of the graphs dijkstra is run on.
Weights == {0, 1, 3}

WeightedGraphs(n) ==
  {GraphOf(n, cells) :
     cells \in [Pairs(n) -> {Zero} \cup {[type |-> "route", weight |-> w] : w \in Weights}]}

RECURSIVE selectMin(_, _, _, _, _)
\* The first for loop of the while: m = [minDistance, minIndex].
selectMin(g, sS, dD, m, i) ==
  IF i >= length(g) THEN m
  ELSE selectMin(g, sS, dD,
                 IF At(sS, i) < m.minDistance /\ ~At(dD, i)
                   THEN [minDistance |-> At(sS, i), minIndex |-> i]
                   ELSE m,
                 i + 1)

\* The body of the second for loop with the distance of the edge alone.
relaxEdgeOnly(st, g, minIndex, i) ==
  IF edgeExists(g, minIndex, i) /\ At(st.S, i) > getWeight(g, minIndex, i)
    THEN [st EXCEPT !.S = Put(@, i, getWeight(g, minIndex, i)),
                    !.P = Put(@, i, minIndex)]
    ELSE st

\* The body of the second for loop of the while; st = [S, D, P, minIndex].
relax(st, g, minIndex, i) ==
  IF edgeExists(g, minIndex, i)
       /\ At(st.S, i) > At(st.S, minIndex) + getWeight(g, minIndex, i)
    THEN [st EXCEPT !.S = Put(@, i, At(st.S, minIndex) + getWeight(g, minIndex, i)),
                    !.P = Put(@, i, minIndex)]
    ELSE st

RECURSIVE relaxAll(_, _, _, _)
relaxAll(st, g, minIndex, i) ==
  IF i >= length(g) THEN st
  ELSE relaxAll(relax(st, g, minIndex, i), g, minIndex, i + 1)

RECURSIVE dijkstraLoop(_, _, _)
\* while (iterations--) ...; minIndex keeps its value from pass to pass.
dijkstraLoop(st, g, its) ==
  IF its = 0 THEN st
  ELSE LET m == selectMin(g, st.S, st.D,
                          [minDistance |-> Infinity, minIndex |-> st.minIndex], 0)
       IN IF m.minDistance = Infinity THEN st
          ELSE dijkstraLoop(relaxAll([st EXCEPT !.D = Put(@, m.minIndex, TRUE),
                                                !.minIndex = m.minIndex],
                                     g, m.minIndex, 0),
                            g, its - 1)

\* The arrays when the while loop has ended.
dijkstraDistances(g, s) ==
  dijkstraLoop([S |-> Put(Fill(length(g), Infinity), s, 0),
                D |-> Fill(length(g), FALSE),
                P |-> Fill(length(g), 0),
                minIndex |-> Undefined],
               g, length(g))

RECURSIVE pathWalk(_, _, _)
\* while (P[i] !== 0) { path.push(graph.createEdge(P[i], i)); i = P[i]; }
pathWalk(g, pP, i) ==
  IF At(pP, i) = 0 THEN <<>>
  ELSE <<createEdge(g, At(pP, i), i)>> \o pathWalk(g, pP, At(pP, i))

\* The path built by a loop that tests P[i] only after its body.
pathFromDoWhile(g, pP, e) ==
  <<createEdge(g, At(pP, e), e)>> \o pathWalk(g, pP, At(pP, e))

\* var path = []; let i = end; the while loop.
pathFrom(g, pP, e) == pathWalk(g, pP, e)

Reverse(a) == SubSeq([k \in 1..Len(a) |-> a[Len(a) + 1 - k]], 1, Len(a))

RECURSIVE visitAll(_, _, _)
\* path.reverse().forEach(edge => traverser.visit(edge))
visitAll(t, path, k) ==
  IF k > Len(path) THEN t ELSE visitAll(visit(t, path[k]), path, k + 1)

NotDijkstra == <<input, result, history, mergeTopArgs, Q, callback, ticks, ranks, iterations,
                 node, sweepStart, recorded, Mode, attempts>>

InitDijkstra ==
  /\ pc = "call"
  /\ \E n \in 1..MaxDijkstraNodes : graph \in WeightedGraphs(n)
  /\ start \in Nodes(graph)
  /\ end \in Nodes(graph)
  /\ traverser = NoTraverser
  /\ Q = <<>> /\ D = <<>> /\ callback = NoCallback /\ ticks = <<>>
  /\ IdleMerge /\ IdleDijkstra /\ IdleRank /\ IdleEnum

\* The whole call: dijkstra is synchronous.
dijkstraCall ==
  /\ pc = "call"
  /\ LET st == dijkstraDistances(graph, start)
         path == pathFrom(graph, st.P, end)
     IN /\ S' = st.S /\ D' = st.D /\ P' = st.P
        /\ traverser' = summary(visitAll(BasicTraverser, Reverse(path), 1), At(st.S, end))
  /\ pc' = "done"
  /\ UNCHANGED <<graph, start, end>>
  /\ UNCHANGED NotDijkstra

NextDijkstra == dijkstraCall

SpecDijkstra == InitDijkstra /\ [][NextDijkstra]_vars

\* ------------------------------------------------------------------------
\* Properties of dijkstra

Least(set) == CHOOSE x \in set : \A y \in set : x <= y

RECURSIVE ShortestWithin(_, _, _)
\* The length of a shortest path from s of at most k edges to every node,
\* Infinity where there is none.
ShortestWithin(g, s, k) ==
  IF k = 0 THEN [v \in Nodes(g) |-> IF v = s THEN 0 ELSE Infinity]
  ELSE LET d == ShortestWithin(g, s, k - 1)
       IN [v \in Nodes(g) |->
             Least({d[v]} \cup {d[u] + Cell(g, u, v).weight :
                                  u \in {x \in Nodes(g) : Cell(g, x, v) # Zero /\ d[x] < Infinity}})]

ShortestDistance(g, s, v) == ShortestWithin(g, s, g.numNodes - 1)[v]

\* C6: when the loop of dijkstra has ended, S holds for every node that can
\* be reached from the source the length of a shortest path to it, and
\* Infinity for every other node.
C6_DijkstraDistances ==
  pc = "done" =>
    \A v \in Nodes(graph) :
      /\ At(S, v) = ShortestDistance(graph, start, v)
      /\ v \in Reachable(graph, start) <=> At(S, v) < Infinity

\* dijkstra has run on a triangle in which the way round is shorter than
\* the direct edge.
C6_Witness ==
  /\ pc = "done"
  /\ graph.numNodes = 3
  /\ start = 2
  /\ Cell(graph, 2, 0).weight = 3 /\ Cell(graph, 2, 1).weight = 1 /\ Cell(graph, 1, 0).weight = 1
  /\ At(S, 0) = 2

\* C7: when the target cannot be reached dijkstra completes with no visit
\* event and one summary, whose pathLength is Infinity.
C7_DijkstraUnreachable ==
  (pc = "done" /\ end \notin Reachable(graph, start)) =>
    /\ EventsOf("visit") = {}
    /\ traverser.events = <<Event("summary", 0, 0, 0, Infinity)>>

\* dijkstra has run from node 1 of a graph with the edge 1 - 2 only to the
\* target 0.
C7_Witness ==
  /\ pc = "done"
  /\ graph.numNodes = 3
  /\ start = 1 /\ end = 0
  /\ Cell(graph, 2, 1) # Zero /\ Cell(graph, 1, 0) = Zero /\ Cell(graph, 2, 0) = Zero

RECURSIVE SumWeights(_, _)
\* The sum of the weights of the first k events.
SumWeights(ev, k) == IF k = 0 THEN 0 ELSE ev[k].weight + SumWeights(ev, k - 1)

\* C16: when the target can be reached from the source and is not the
\* source, whatever the two nodes and the nodes between them, the edges
\* handed to visit are, in order, a path of the graph from the source to
\* the target, and their weights add up to the pathLength of the summary.
C16_DijkstraPath ==
  (pc = "done" /\ end # start /\ end \in Reachable(graph, start)) =>
    LET ev == traverser.events
        n  == Len(ev) - 1
    IN /\ n >= 1
       /\ \A k \in 1..n : ev[k].ev = "visit"
       /\ ev[n + 1].ev = "summary"
       /\ ev[1].origin = start
       /\ ev[n].destination = end
       /\ \A k \in 1..(n - 1) : ev[k].destination = ev[k + 1].origin
       /\ \A k \in 1..n :
            /\ Cell(graph, ev[k].origin, ev[k].destination) # Zero
            /\ ev[k].weight = Cell(graph, ev[k].origin, ev[k].destination).weight
       /\ SumWeights(ev, n) = ev[n + 1].n

\* ------------------------------------------------------------------------
\* pageRank(graph, traverser)

\* Ranks are modelled by exact fractions [num, den] in lowest terms; den = 0
\* stands for the outcome of a division by zero.
RECURSIVE GCD(_, _)
GCD(a, b) == IF b = 0 THEN a ELSE GCD(b, a % b)

Abs(a) == IF a < 0 THEN -a ELSE a

Fraction(num, den) ==
  IF den = 0 THEN [num |-> 1, den |-> 0]
  ELSE LET d == GCD(Abs(num), den) IN [num |-> num \div d, den |-> den \div d]

Plus(a, b) == Fraction(a.num * b.den + b.num * a.den, a.den * b.den)

Times(a, b) == Fraction(a.num * b.num, a.den * b.den)

Over(a, k) == Fraction(a.num, a.den * k)

\* const damping = 1;
damping == 1

\* const initialRank = 1.0;
initialRank == 1

\* let iterations = 10;
Sweeps == 10

\* countOutgoingEdges: the number of edges of every node.
outgoingEdgeCounts(g) ==
  SubSeq([i \in 1..length(g) |->
            Cardinality({j \in Nodes(g) : edgeExists(g, i - 1, j)})], 1, length(g))

RECURSIVE incomingOf(_, _, _)
\* The nodes i >= from with an edge to j, in increasing order.
incomingOf(g, j, from) ==
  IF from >= length(g) THEN <<>>
  ELSE (IF edgeExists(g, from, j) THEN <<from>> ELSE <<>>) \o incomingOf(g, j, from + 1)

\* countIncomingEdges: for every node the nodes with an edge to it.
incomingNodes(g) ==
  SubSeq([j \in 1..length(g) |-> incomingOf(g, j - 1, 0)], 1, length(g))

RECURSIVE inNodeSummation(_, _, _, _)
\* The forEach of updateRank over incoming, from its k-th element.
inNodeSummation(g, rk, incoming, k) ==
  IF k > Len(incoming) THEN Fraction(0, 1)
  ELSE Plus(Over(At(rk, incoming[k]), At(outgoingEdgeCounts(g), incoming[k])),
            inNodeSummation(g, rk, incoming, k + 1))

\* updateRank with a forEach that skips the first incoming node.
updateRankSkipsFirst(g, rk, nodeIndex) ==
  Plus(Fraction(1 - damping, length(g)),
       Times(Fraction(damping, 1),
             inNodeSummation(g, rk, At(incomingNodes(g), nodeIndex), 2)))

\* updateRank(nodeIndex), reading the ranks rk.
updateRank(g, rk, nodeIndex) ==
  Plus(Fraction(1 - damping, length(g)),
       Times(Fraction(damping, 1),
             inNodeSummation(g, rk, At(incomingNodes(g), nodeIndex), 1)))

Degree(g, v) == Cardinality({w \in Nodes(g) : Cell(g, v, w) # Zero})

\* The graphs pageRank is run on: those in which every node has the same
\* number of edges, and the stars (one node joined to every other node and
\* no other edge).  On them the fractions stay small.
IsRegular(g) == \A v, w \in Nodes(g) : Degree(g, v) = Degree(g, w)

IsStar(g) ==
  \E c \in Nodes(g) : \A p \in Pairs(g.numNodes) :
    At(At(g.G, p[1]), p[2]) # Zero <=> c \in {p[1], p[2]}

RankGraphs(n) == {g \in RouteGraphs(n) : IsRegular(g) \/ IsStar(g)}

NotRank == <<input, result, history, mergeTopArgs, start, end, traverser, Q, D, callback, ticks,
             S, P, Mode, attempts>>

InitRank ==
  /\ pc = "call"
  /\ \E n \in 1..MaxRankNodes : graph \in RankGraphs(n)
  /\ IdleMerge /\ IdleSearch /\ IdleBfs /\ IdleDijkstra /\ IdleRank /\ IdleEnum

\* The call up to the while loop: the ranks are set to initialRank.
pageRankCall ==
  /\ pc = "call"
  /\ ranks' = Fill(length(graph), Fraction(initialRank, 1))
  /\ iterations' = Sweeps
  /\ node' = 0
  /\ sweepStart' = Fill(length(graph), Fraction(initialRank, 1))
  /\ pc' = "while"
  /\ UNCHANGED <<graph, recorded>>
  /\ UNCHANGED NotRank

\* while (iterations--): a new sweep begins.
pageRankSweep ==
  /\ pc = "while"
  /\ iterations # 0
  /\ iterations' = iterations - 1
  /\ node' = 0
  /\ sweepStart' = ranks
  /\ pc' = "for"
  /\ UNCHANGED <<graph, ranks, recorded>>
  /\ UNCHANGED NotRank

\* ranks[node] = updateRank(node), and node++.
pageRankUpdate ==
  /\ pc = "for"
  /\ node < length(graph)
  /\ ranks' = Put(ranks, node, updateRank(graph, ranks, node))
  /\ node' = node + 1
  /\ pc' = IF node + 1 < length(graph) THEN "for" ELSE "while"
  /\ UNCHANGED <<graph, iterations, sweepStart, recorded>>
  /\ UNCHANGED NotRank

\* The loop has ended: recordRanks(ranks.slice()) and summary({ranks}).
pageRankRecord ==
  /\ pc = "while"
  /\ iterations = 0
  /\ iterations' = -1
  /\ recorded' = Append(recorded, [recordRanks |-> ranks, summary |-> ranks])
  /\ pc' = "done"
  /\ UNCHANGED <<graph, ranks, node, sweepStart>>
  /\ UNCHANGED NotRank

\* pageRank is called once more on the same graph.
pageRankAgain ==
  /\ pc = "done"
  /\ Len(recorded) < MaxRuns
  /\ pc' = "call"
  /\ UNCHANGED <<graph, ranks, iterations, node, sweepStart, recorded>>
  /\ UNCHANGED NotRank

NextRank == pageRankCall \/ pageRankSweep \/ pageRankUpdate \/ pageRankRecord \/ pageRankAgain

SpecRank == InitRank /\ [][NextRank]_vars

\* ------------------------------------------------------------------------
\* Properties of pageRank

RECURSIVE Synchronous(_, _)
\* The ranks after k sweeps, each computed from the ranks of the sweep before.
Synchronous(g, k) ==
  IF k = 0 THEN Fill(length(g), Fraction(initialRank, 1))
  ELSE LET before == Synchronous(g, k - 1)
       IN SubSeq([v \in 1..length(g) |-> updateRank(g, before, v - 1)], 1, length(g))

\* C9: in every sweep the new rank of a node is computed from the ranks all
\* nodes had when the sweep began, so that the vector recorded is that of
\* the synchronous iteration.
C9_SynchronousSweeps ==
  /\ pc \in {"for", "while"} /\ iterations < Sweeps =>
       \A v \in 0..((IF pc = "for" THEN node ELSE length(graph)) - 1) :
         At(ranks, v) = updateRank(graph, sweepStart, v)
  /\ pc = "done" => recorded[Len(recorded)].recordRanks = Synchronous(graph, Sweeps)

IsCycle4(g) == g.numNodes = 4 /\ \A v \in Nodes(g) : Degree(g, v) = 2

AllEqual(rk) == \A v, w \in 1..Len(rk) : rk[v] = rk[w]

\* C10: on a cycle of four nodes the four ranks are equal when a sweep has
\* ended, the vector recorded has four equal ranks, and a second call
\* records the same vector as the first.
C10_CycleRanksEqual ==
  IsCycle4(graph) =>
    /\ pc = "while" => AllEqual(ranks)
    /\ \A k \in 1..Len(recorded) :
         /\ Len(recorded[k].recordRanks) = 4
         /\ AllEqual(recorded[k].recordRanks)
         /\ recorded[k] = recorded[1]

\* pageRank has recorded the ranks of the cycle 0 - 1 - 2 - 3 - 0 twice.
C10_Witness ==
  /\ pc = "done"
  /\ IsCycle4(graph)
  /\ Cell(graph, 1, 0) # Zero /\ Cell(graph, 3, 0) # Zero
  /\ Len(recorded) = 2

\* ------------------------------------------------------------------------
\* Enum(names): the enum of lib/enum as src/test/enumSpec.js uses it

\* Largest number of entries of the record of attempts on one enum.
MaxAttempts == 3

\* Symbol.for(name)
SymbolFor(name) == "Symbol.for(" \o name \o ")"

\* The lists of names an enum is declared with.
Declarations == {<<"BEST", "WORST">>, <<"WORST", "BEST">>, <<"BEST">>}

\* The names the callers assign to and read.
AssignedNames == {"BEST", "WORST", "MEDIUM_BEST", "ALL"}

ReadNames == {"BEST", "WORST", "SECOND_WORST", "ALL"}

AssignedValues == {"Symbol(medium best)", SymbolFor("BEST")}

\* Enum(names): an object with one member per name, in the order of the
\* declaration, and the list ALL of their values.
Enum(names) ==
  [declared |-> SubSeq([k \in 1..Len(names) |->
                          [name |-> names[k], value |-> SymbolFor(names[k])]], 1, Len(names)),
   ALL      |-> SubSeq([k \in 1..Len(names) |-> SymbolFor(names[k])], 1, Len(names))]

HasMember(object, name) == \E k \in 1..Len(object.declared) : object.declared[k].name = name

MemberValue(object, name) ==
  object.declared[CHOOSE k \in 1..Len(object.declared) : object.declared[k].name = name].value

\* An assignment that adds or replaces the member and throws nothing.
EnumSetAssigns(object, name, value) ==
  [threw  |-> FALSE,
   object |-> IF HasMember(object, name)
                THEN [object EXCEPT !.declared =
                        SubSeq([k \in 1..Len(@) |->
                                  IF @[k].name = name THEN [name |-> name, value |-> value]
                                  ELSE @[k]], 1, Len(@))]
                ELSE [object EXCEPT !.declared = Append(@, [name |-> name, value |-> value]),
                                    !.ALL = Append(@, value)]]

\* object[name] = value: throws an Error and changes nothing.
EnumSet(object, name, value) == [threw |-> TRUE, object |-> object]

\* object[name]: the member, the list ALL, or an Error for any other name.
EnumGet(object, name) ==
  IF name = "ALL" THEN [threw |-> FALSE, value |-> object.ALL]
  ELSE IF HasMember(object, name) THEN [threw |-> FALSE, value |-> <<MemberValue(object, name)>>]
  ELSE [threw |-> TRUE, value |-> <<>>]

Attempt(op, name, threw, value) == [op |-> op, name |-> name, threw |-> threw, value |-> value]

NotEnum == <<graph, input, result, history, mergeTopArgs, start, end, traverser, Q, D, callback,
             ticks, S, P, ranks, iterations, node, sweepStart, recorded>>

InitEnum ==
  /\ pc = "call"
  /\ graph = NoGraph
  /\ IdleMerge /\ IdleSearch /\ IdleBfs /\ IdleDijkstra /\ IdleRank /\ IdleEnum

\* let Mode = Enum([...]);
enumCreate ==
  /\ pc = "call"
  /\ \E names \in Declarations :
       /\ Mode' = Enum(names)
       /\ attempts' = <<Attempt("Enum", "", FALSE, names)>>
  /\ pc' = "made"
  /\ UNCHANGED NotEnum

\* Mode.NAME = value, inside a function that may throw.
enumAssign ==
  /\ pc = "made"
  /\ Len(attempts) < MaxAttempts
  /\ \E name \in AssignedNames, value \in AssignedValues :
       LET outcome == EnumSet(Mode, name, value)
       IN /\ Mode' = outcome.object
          /\ attempts' = Append(attempts, Attempt("set", name, outcome.threw, <<value>>))
  /\ UNCHANGED pc
  /\ UNCHANGED NotEnum

\* Mode.NAME, inside a function that may throw.
enumRead ==
  /\ pc = "made"
  /\ Len(attempts) < MaxAttempts
  /\ \E name \in ReadNames :
       LET outcome == EnumGet(Mode, name)
       IN attempts' = Append(attempts, Attempt("get", name, outcome.threw, outcome.value))
  /\ UNCHANGED <<pc, Mode>>
  /\ UNCHANGED NotEnum

NextEnum == enumCreate \/ enumAssign \/ enumRead

SpecEnum == InitEnum /\ [][NextEnum]_vars

\* ------------------------------------------------------------------------
\* Properties of Enum

\* The names the enum was declared with.
DeclaredNames == attempts[1].value

====
